---- MODULE Spec2Model ----
(***************************************************************************)
(* A model of the llm command-line client: the root command (cmd/root.go), *)
(* its prompt resolution (getPromptContent), its templates                 *)
(* (internal/templating), its cancellation watcher, and the two completion *)
(* calls of internal/llm/client.go, GetChatCompletion and                  *)
(* GetStreamingChatCompletion.                                             *)
(*                                                                         *)
(* Text is a sequence of one-character strings.  A response body is a      *)
(* sequence of lines; a line is a record with the bytes before its         *)
(* payload (marker), the kind of payload and, for a JSON payload, the      *)
(* choices array it encodes.                                               *)
(***************************************************************************)
EXTENDS Integers, Sequences, FiniteSets, TLC

VARIABLES
    env,           \* what the invocation is given: arguments, stdin, files, config
    finalPrompt,   \* finalPrompt of root.go:68
    completionBody,\* the request of root.go:165, NoRequest before it is built
    mode,          \* "stream" | "block": the branch RunE takes (root.go:171)
    pc,            \* position of RunE / of the client call it makes
    ctxDone,       \* ctx of root.go:55 has been cancelled
    signalChannel, \* number of signals buffered in signalChannel (capacity 1)
    watcher,       \* the goroutine of root.go:62: "waiting" | "done"
    requests,      \* number of calls of HTTPClient.Do
    resp,          \* the response Do returned, NoResp when none
    closed,        \* number of calls of resp.Body.Close
    pos,           \* lines of the body the scanner has delivered
    doErr,         \* the error Do returned, NoErr when it returned a response
    readErr,       \* the first error a Read of resp.Body returned, NoErr when none
    tokens,        \* the tokens scanner.Scan has delivered, in order
    fullContent,   \* the strings.Builder of client.go:192
    sink,          \* what has been written to outputWriter / os.Stdout
    ret,           \* what the client call returned
    path,          \* the return statement the client call left through
    cmd,           \* what RunE returned and main made of it
    invocations,   \* calls of RunE in this process so far, the running one included
    stale          \* watcher goroutines of the invocations that have returned

rootVars == <<env, finalPrompt, completionBody>>

processVars == <<invocations, stale>>

vars == <<env, finalPrompt, completionBody, mode, pc, ctxDone, signalChannel, watcher, requests,
          resp, doErr, closed, pos, readErr, tokens, fullContent, sink, ret, path, cmd,
          invocations, stale>>

---------------------------------------------------------------------------
(* Bounds of the model *)

MaxLines == 3

---------------------------------------------------------------------------
(* Program constants *)

StatusOK == 200

SignalBuffer == 1

DataPrefix == "data: "

DoneSentinel == "[DONE]"

Separator == <<"\n", "\n">>

---------------------------------------------------------------------------
(* Wire data *)

JChoice(delta, message, finish) ==
    [delta |-> delta, message |-> message, finish |-> finish]

Line(marker, kind, choices, big) ==
    [marker |-> marker, kind |-> kind, choices |-> choices, big |-> big]

L_nosp  == Line("data:", DoneSentinel, <<>>, FALSE)
L_done  == Line(DataPrefix, DoneSentinel, <<>>, FALSE)
L_bad   == Line(DataPrefix, "malformed", <<>>, FALSE)
L_a     == Line(DataPrefix, "json", <<JChoice(<<"a">>, <<>>, "")>>, FALSE)
L_b     == Line(DataPrefix, "json", <<JChoice(<<"b">>, <<>>, "")>>, FALSE)
L_stop  == Line(DataPrefix, "json", <<JChoice(<<>>, <<>>, "stop")>>, FALSE)
L_two   == Line(DataPrefix, "json",
                <<JChoice(<<"c">>, <<>>, ""), JChoice(<<"d">>, <<>>, "stop")>>, FALSE)
L_big   == Line(DataPrefix, "json", <<JChoice(<<"a">>, <<>>, "")>>, TRUE)
L_bigc  == Line(": ", "comment", <<>>, TRUE)

StreamLines == {L_nosp, L_done, L_bad, L_a, L_b, L_stop, L_two, L_big, L_bigc}

J_none == Line("", "json", <<>>, FALSE)
J_one  == Line("", "json", <<JChoice(<<>>, <<"a">>, "stop")>>, FALSE)
J_two  == Line("", "json",
               <<JChoice(<<>>, <<"b">>, "stop"), JChoice(<<>>, <<"a">>, "stop")>>, FALSE)
J_text == Line("", "text", <<>>, FALSE)

BlockBodies == {<<>>, <<J_none>>, <<J_one>>, <<J_two>>, <<J_text>>, <<L_a>>}

SeqsUpTo(S, n) == UNION {[1..k -> S] : k \in 0..n}

StreamBodies == SeqsUpTo(StreamLines, MaxLines)

BodiesFor(m) == IF m = "stream" THEN StreamBodies ELSE BlockBodies

StatusCodes == {StatusOK, 201, 429}

---------------------------------------------------------------------------
(* Text *)

RECURSIVE Itoa(_)
\* fmt's %d of a non-negative int: its decimal digits
Itoa(n) ==
    LET d == <<"0", "1", "2", "3", "4", "5", "6", "7", "8", "9">>
    IN  IF n < 10 THEN <<d[n + 1]>> ELSE Itoa(n \div 10) \o <<d[(n % 10) + 1]>>

HasPrefixIgnoringSpace(line, prefix) == line.marker \in {prefix, "data:"}

\* strings.HasPrefix(line, prefix)
HasPrefix(line, prefix) == line.marker = prefix

\* strings.TrimPrefix(line, prefix) of a line that has the prefix: its payload
TrimPrefix(line, prefix) == [kind |-> line.kind, choices |-> line.choices]

\* json.Unmarshal into ChatCompletionStreamResponse: choices[i].delta.content and
\* choices[i].finish_reason are kept, message is no field of the target type
UnmarshalStream(data) ==
    IF data.kind = "json"
    THEN [ok |-> TRUE,
          choices |-> [i \in 1..Len(data.choices) |->
                         [content |-> data.choices[i].delta,
                          finish  |-> data.choices[i].finish]]]
    ELSE [ok |-> FALSE, choices |-> <<>>]

\* json.NewDecoder(body).Decode into ChatCompletionResponse: the first JSON value
\* of the body; choices[i].message.content is kept, delta is no field of the type
DecodeResponse(body) ==
    IF Len(body) > 0 /\ body[1].marker = "" /\ body[1].kind = "json"
    THEN [ok |-> TRUE,
          choices |-> [i \in 1..Len(body[1].choices) |->
                         [content |-> body[1].choices[i].message]]]
    ELSE [ok |-> FALSE, choices |-> <<>>]

---------------------------------------------------------------------------
(* Errors: the chain of messages errors.Unwrap walks, outermost first *)

Err(chain, code, body) == [chain |-> chain, code |-> code, body |-> body]

NoErr == Err(<<>>, <<>>, <<>>)

Canceled == "context canceled"

ErrCanceled == Err(<<Canceled>>, <<>>, <<>>)

ErrEOF == Err(<<"EOF">>, <<>>, <<>>)

ErrUnexpectedEOF == Err(<<"unexpected EOF">>, <<>>, <<>>)

ErrTooLong == Err(<<"bufio.Scanner: token too long">>, <<>>, <<>>)

ErrDial == Err(<<"Post", "dial tcp: connection refused">>, <<>>, <<>>)

\* what http.Client.Do returns when the Timeout of root.go:44-46 expires
ErrDoTimeout == Err(<<"Post", "context deadline exceeded">>, <<>>, <<>>)

\* what a Read of the body returns when that Timeout expires during it
ErrReadTimeout ==
    Err(<<"context deadline exceeded (Client.Timeout while reading body)">>, <<>>, <<>>)

\* what http.Client.Do returns for a cancelled context: a *url.Error around it
ErrDoCanceled == Err(<<"Post", Canceled>>, <<>>, <<>>)

ErrSyntax == Err(<<"invalid character">>, <<>>, <<>>)

\* fmt.Errorf(msg + ": %w", cause)
Wrap(msg, cause) == Err(<<msg>> \o cause.chain, <<>>, <<>>)

\* errors.Is(err, target)
ErrorsIs(err, target) == \E i \in 1..Len(err.chain) : err.chain[i] = target

\* the errors Do can fail with
DoErrors == {ErrDial, ErrDoTimeout} \cup (IF ctxDone THEN {ErrDoCanceled} ELSE {})

\* the errors a Read of the response body can fail with: the connection breaks,
\* the Timeout of the http.Client expires, or ctx is cancelled
ReadErrors ==
    {ErrUnexpectedEOF, ErrReadTimeout} \cup (IF ctxDone THEN {ErrCanceled} ELSE {})

---------------------------------------------------------------------------
(* The return statements of the two client calls, as values *)

Result(text, completion, err) == [text |-> text, completion |-> completion, err |-> err]

DoErrorResultAlwaysWrapped(err) ==
    Result(<<>>, <<>>, Wrap("error sending request to LLM API", err))

\* client.go:116-124 and 168-176: Do failed with err
DoErrorResult(err) ==
    IF ErrorsIs(err, Canceled)
    THEN Result(<<>>, <<>>, ErrCanceled)
    ELSE Result(<<>>, <<>>, Wrap("error sending request to LLM API", err))

StatusRejectedOutside2xx(code) == code < 200 \/ code > 299

\* client.go:131 and 183: the status check
StatusRejected(code) == code # StatusOK

StatusErrorResultWithoutBody(code, bodyBytes) ==
    Result(<<>>, <<>>, Err(<<"LLM API returned non-OK status">>, Itoa(code), <<>>))

\* client.go:132-137 and 184-189: bodyBytes is what io.ReadAll could read
StatusErrorResult(code, bodyBytes) ==
    Result(<<>>, <<>>, Err(<<"LLM API returned non-OK status">>, Itoa(code), bodyBytes))

\* client.go:209-212: json.Unmarshal of a chunk failed
UnmarshalErrorResult(full, err) ==
    Result(<<>>, <<>>, Wrap("error unmarshalling streaming chunk", err))

ScannerErrWithEOF(e) == e

\* client.go:227, bufio.Scanner.Err: io.EOF is reported as nil
ScannerErr(e) == IF e = ErrEOF THEN NoErr ELSE e

\* client.go:227-237: the statements after the loop
AfterLoopResult(full, e) ==
    LET err == ScannerErr(e)
    IN  IF err # NoErr
        THEN IF ErrorsIs(err, Canceled)
             THEN Result(full, <<>>, ErrCanceled)
             ELSE Result(full, <<>>, Wrap("error reading streaming response", err))
        ELSE Result(full, <<>>, NoErr)

AfterLoopPath(e) ==
    LET err == ScannerErr(e)
    IN  IF err # NoErr
        THEN IF ErrorsIs(err, Canceled) THEN "read_canceled" ELSE "read_failed"
        ELSE "completed"

\* client.go:140-147: the decoded response, or the decode error
DecodeResult(d, err) ==
    IF err # NoErr
    THEN Result(<<>>, <<>>, Wrap("error decoding LLM API response", err))
    ELSE Result(<<>>, <<d.choices>>, NoErr)

RECURSIVE WriteChoicesPrepending(_, _, _)
WriteChoicesPrepending(choices, out, full) ==
    IF choices = <<>>
    THEN [sink |-> out, full |-> full]
    ELSE LET c == Head(choices)
         IN  WriteChoicesPrepending(Tail(choices), c.content \o out, c.content \o full)

RECURSIVE WriteChoicesSeparatorInText(_, _, _)
WriteChoicesSeparatorInText(choices, out, full) ==
    IF choices = <<>>
    THEN [sink |-> out, full |-> full]
    ELSE LET c == Head(choices)
             sep == IF c.finish # "" THEN Separator ELSE <<>>
         IN  WriteChoicesSeparatorInText(Tail(choices), out \o c.content \o sep,
                                         full \o c.content \o sep)

RECURSIVE WriteChoicesTwice(_, _, _)
WriteChoicesTwice(choices, out, full) ==
    IF choices = <<>>
    THEN [sink |-> out, full |-> full]
    ELSE LET c     == Head(choices)
             out1  == IF c.content # <<>> THEN out \o c.content ELSE out
             full1 == IF c.content # <<>> THEN full \o c.content \o c.content ELSE full
             out2  == IF c.finish # "" THEN out1 \o Separator ELSE out1
         IN  WriteChoicesTwice(Tail(choices), out2, full1)

RECURSIVE WriteChoices(_, _, _)
\* client.go:214-224: the loop over the choices of one chunk
WriteChoices(choices, out, full) ==
    IF choices = <<>>
    THEN [sink |-> out, full |-> full]
    ELSE LET c     == Head(choices)
             out1  == IF c.content # <<>> THEN out \o c.content ELSE out
             full1 == IF c.content # <<>> THEN full \o c.content ELSE full
             out2  == IF c.finish # "" THEN out1 \o Separator ELSE out1
         IN  WriteChoices(Tail(choices), out2, full1)

BodyCloseForgotten(n) == n

\* client.go:125-129 and 177-181: the deferred resp.Body.Close
BodyClose(n) == n + 1

\* bufio.ScanLines at a read error: the bytes of the next line that had arrived
\* are delivered as a last token.  "payload": the line was cut inside its payload;
\* "whole": only its newline was missing.  A line cut inside the marker, or no
\* byte of it, gives no data line ("none").
Cut(line, frag) ==
    IF frag = "whole" THEN line
    ELSE IF HasPrefix(line, DataPrefix)
         THEN Line(line.marker, "malformed", <<>>, FALSE)
         ELSE line

Frags(body, p) ==
    IF p < Len(body)
    THEN {"none", "payload"} \cup (IF body[p + 1].big THEN {} ELSE {"whole"})
    ELSE {"none"}

---------------------------------------------------------------------------
(* The inputs of an invocation *)

Whitespace == {" ", "\n"}

RECURSIVE TrimLeft(_)
TrimLeft(s) == IF s # <<>> /\ Head(s) \in Whitespace THEN TrimLeft(Tail(s)) ELSE s

RECURSIVE TrimRight(_)
TrimRight(s) ==
    IF s # <<>> /\ s[Len(s)] \in Whitespace
    THEN TrimRight(SubSeq(s, 1, Len(s) - 1))
    ELSE s

\* strings.TrimSpace(s)
TrimSpace(s) == TrimRight(TrimLeft(s))

RECURSIVE Join(_, _)
\* strings.Join(elems, sep)
Join(elems, sep) ==
    IF elems = <<>> THEN <<>>
    ELSE IF Len(elems) = 1 THEN elems[1]
    ELSE elems[1] \o sep \o Join(Tail(elems), sep)

\* os.Stdin: piped or a terminal; ok: io.ReadAll of it succeeds
Stdin(piped, ok, bytes) == [piped |-> piped, ok |-> ok, bytes |-> bytes]

NotPiped == Stdin(FALSE, TRUE, <<>>)

Stdins == {NotPiped, Stdin(TRUE, TRUE, <<"\n">>), Stdin(TRUE, TRUE, <<"s", "\n">>),
           Stdin(TRUE, FALSE, <<>>)}

\* --prompt-file: flag set or not; ok: os.ReadFile of the path succeeds
PromptFile(flag, ok, bytes) == [flag |-> flag, ok |-> ok, bytes |-> bytes]

NoFile == PromptFile(FALSE, TRUE, <<>>)

PromptFiles == {NoFile, PromptFile(TRUE, TRUE, <<" ">>), PromptFile(TRUE, TRUE, <<"f", "\n">>),
                PromptFile(TRUE, FALSE, <<>>)}

\* the positional arguments; "{{...}}" is one piece of text/template syntax
ArgLists == { <<>>, << <<"a">>, <<"b">> >>, << <<"{{.Name}}">> >>,
              << <<"{{.UserPrompt}}">> >>, << <<"{{">> >> }

\* templating.Template (template.go:8-15); temperature is <<>> for nil
Template(name, system, userTemplate, model, temperature) ==
    [name |-> name, system |-> system, userTemplate |-> userTemplate,
     model |-> model, temperature |-> temperature]

T_brainstorm == Template(<<"brainstorm">>, <<"S">>, <<"I", "{{.UserPrompt}}", "P">>, "", <<>>)

T_plain == Template(<<"plain">>, <<>>, <<"{{.UserPrompt}}">>, "fast", <<"0.2">>)

\* the files of ~/.llm/templates: yaml whether yaml.Unmarshal accepts the file
TemplateDir ==
    ("brainstorm" :> [yaml |-> TRUE, t |-> T_brainstorm]) @@
    ("plain" :> [yaml |-> TRUE, t |-> T_plain]) @@
    ("broken" :> [yaml |-> FALSE, t |-> T_plain])

TemplateFlags == {"", "brainstorm", "plain", "broken", "missing"}

\* viper's models.aliases (root.go:303-308)
Aliases ==
    ("fast" :> "openai/gpt-4.1-nano") @@ ("10x" :> "anthropic/claude-sonnet-4") @@
    ("smart" :> "google/gemini-2.5-pro") @@ ("gpt4" :> "openai/gpt-4o")

Models == {"fast", "google/gemini-2.5-flash"}

APIKeys == {"", "key"}

Invocation(args, stdin, promptFile, template, model, apiKey) ==
    [args |-> args, stdin |-> stdin, promptFile |-> promptFile, template |-> template,
     model |-> model, apiKey |-> apiKey]

Invocations ==
    {Invocation(a, s, f, t, m, k) :
        a \in ArgLists, s \in Stdins, f \in PromptFiles, t \in TemplateFlags,
        m \in Models, k \in APIKeys}

\* llm hello, with an API key configured and the default model
PlainInvocation ==
    Invocation(<< <<"hello">> >>, NotPiped, NoFile, "", "google/gemini-2.5-flash", "key")

---------------------------------------------------------------------------
(* Prompt resolution, templates and the request *)

ErrIO == Err(<<"input/output error">>, <<>>, <<>>)

ErrNotExist == Err(<<"open", "no such file or directory">>, <<>>, <<>>)

ErrNoPrompt == Err(<<"no prompt provided">>, <<>>, <<>>)

ErrEmptyPrompt == Err(<<"prompt cannot be empty after combining inputs">>, <<>>, <<>>)

ErrNoAPIKey == Err(<<"api key not set">>, <<>>, <<>>)

ErrYAML == Err(<<"yaml: unmarshal errors">>, <<>>, <<>>)

ErrTemplateParse == Err(<<"template: user_prompt: unclosed action">>, <<>>, <<>>)

ErrTemplateExec == Err(<<"template: user_prompt: can't evaluate field">>, <<>>, <<>>)

Prompt(text, err) == [text |-> text, err |-> err]

getPromptContentStdinFirst(cliArgs, promptFile, stdin) ==
    IF stdin.piped /\ ~stdin.ok
    THEN Prompt(<<>>, Wrap("error reading stdin", ErrIO))
    ELSE IF promptFile.flag /\ ~promptFile.ok
    THEN Prompt(<<>>, Wrap("error reading prompt file", ErrNotExist))
    ELSE LET stdinContent == IF stdin.piped THEN TrimSpace(stdin.bytes) ELSE <<>>
             fileContent  == IF promptFile.flag THEN TrimSpace(promptFile.bytes) ELSE <<>>
             cliPrompt    == TrimSpace(Join(cliArgs, <<" ">>))
         IN  IF fileContent # <<>> THEN Prompt(fileContent, NoErr)
             ELSE IF stdinContent # <<>> THEN Prompt(stdinContent, NoErr)
             ELSE IF cliPrompt # <<>> THEN Prompt(cliPrompt, NoErr)
             ELSE Prompt(<<>>, ErrNoPrompt)

getPromptContentAcceptingNothing(cliArgs, promptFile, stdin) ==
    IF stdin.piped /\ ~stdin.ok
    THEN Prompt(<<>>, Wrap("error reading stdin", ErrIO))
    ELSE IF promptFile.flag /\ ~promptFile.ok
    THEN Prompt(<<>>, Wrap("error reading prompt file", ErrNotExist))
    ELSE LET stdinContent == IF stdin.piped THEN TrimSpace(stdin.bytes) ELSE <<>>
             fileContent  == IF promptFile.flag THEN TrimSpace(promptFile.bytes) ELSE <<>>
             cliPrompt    == TrimSpace(Join(cliArgs, <<" ">>))
         IN  IF fileContent # <<>> THEN Prompt(fileContent, NoErr)
             ELSE IF stdinContent # <<>> /\ cliPrompt # <<>>
                  THEN Prompt(cliPrompt \o <<"\n", "\n">> \o stdinContent, NoErr)
             ELSE IF stdinContent # <<>> THEN Prompt(stdinContent, NoErr)
             ELSE Prompt(cliPrompt, NoErr)

\* getPromptContent: stdin is read when it is piped, then the prompt file when the
\* flag is set; file > stdin with CLI text > stdin > CLI text > error
getPromptContent(cliArgs, promptFile, stdin) ==
    IF stdin.piped /\ ~stdin.ok
    THEN Prompt(<<>>, Wrap("error reading stdin", ErrIO))
    ELSE IF promptFile.flag /\ ~promptFile.ok
    THEN Prompt(<<>>, Wrap("error reading prompt file", ErrNotExist))
    ELSE LET stdinContent == IF stdin.piped THEN TrimSpace(stdin.bytes) ELSE <<>>
             fileContent  == IF promptFile.flag THEN TrimSpace(promptFile.bytes) ELSE <<>>
             cliPrompt    == TrimSpace(Join(cliArgs, <<" ">>))
             final        == IF fileContent # <<>> THEN fileContent
                             ELSE IF stdinContent # <<>> /\ cliPrompt # <<>>
                                  THEN cliPrompt \o <<"\n", "\n">> \o stdinContent
                             ELSE IF stdinContent # <<>> THEN stdinContent
                             ELSE cliPrompt
         IN  IF fileContent = <<>> /\ stdinContent = <<>> /\ cliPrompt = <<>>
             THEN Prompt(<<>>, ErrNoPrompt)
             ELSE IF final = <<>> THEN Prompt(<<>>, ErrEmptyPrompt)
             ELSE Prompt(final, NoErr)

\* text/template's Parse of the text: an action that is opened and never closed
ParseFails(text) == \E i \in 1..Len(text) : text[i] = "{{"

\* the evaluation of one piece of the parsed text with the Template t as data: a
\* field of Template gives its value, any other field fails, text stands for itself
Evaluate(piece, t) ==
    IF piece = "{{.Name}}" THEN [ok |-> TRUE, out |-> t.name]
    ELSE IF piece = "{{.SystemMessage}}" THEN [ok |-> TRUE, out |-> t.system]
    ELSE IF piece = "{{.UserPromptTemplate}}" THEN [ok |-> TRUE, out |-> t.userTemplate]
    ELSE IF piece = "{{.UserPrompt}}" THEN [ok |-> FALSE, out |-> <<>>]
    ELSE [ok |-> TRUE, out |-> <<piece>>]

RECURSIVE Execute(_, _)
\* templ.Execute(&buf, t)
Execute(text, t) ==
    IF text = <<>> THEN [ok |-> TRUE, out |-> <<>>]
    ELSE LET h == Evaluate(Head(text), t)
             r == Execute(Tail(text), t)
         IN  [ok |-> h.ok /\ r.ok, out |-> h.out \o r.out]

\* Template.ProcessUserPromptTemplate (template.go:21-34): rawPrompt is parsed as
\* the template and executed with t as its data
ProcessUserPromptTemplate(t, rawPrompt) ==
    IF ParseFails(rawPrompt) THEN Prompt(<<>>, ErrTemplateParse)
    ELSE LET r == Execute(rawPrompt, t)
         IN  IF r.ok THEN Prompt(r.out, NoErr) ELSE Prompt(<<>>, ErrTemplateExec)

\* root.go:74-86: one lookup of the configured model in the aliases
ResolveModel(requestedModel) ==
    IF requestedModel \in DOMAIN Aliases THEN Aliases[requestedModel] ELSE requestedModel

Message(role, content) == [role |-> role, content |-> content]

CompletionMessagesAlwaysSystem(selected, t, content) ==
    <<Message("system", IF selected THEN t.system ELSE <<>>), Message("user", content)>>

\* root.go:128-133, 141-144 and 158-161: completionMessages; selected: a template
\* was given, t that template, content the user message's content
CompletionMessages(selected, t, content) ==
    (IF selected /\ t.system # <<>> THEN <<Message("system", t.system)>> ELSE <<>>)
    \o <<Message("user", content)>>

\* the zero value of templating.Template
NoTemplate == Template(<<>>, <<>>, <<>>, "", <<>>)

Request(model, messages, temperature, stream) ==
    [model |-> model, messages |-> messages, temperature |-> temperature,
     stream |-> stream]

NoRequest == Request("", <<>>, <<>>, FALSE)

Built(body, err) == [body |-> body, err |-> err]

BuildCompletionBodyResolvingTemplateModel(e, prompt) ==
    IF e.apiKey = "" THEN Built(NoRequest, ErrNoAPIKey)
    ELSE IF e.template = ""
    THEN Built(Request(ResolveModel(e.model),
                       CompletionMessages(FALSE, NoTemplate, prompt), <<>>, FALSE), NoErr)
    ELSE IF e.template \notin DOMAIN TemplateDir THEN Built(NoRequest, ErrNotExist)
    ELSE IF ~TemplateDir[e.template].yaml THEN Built(NoRequest, ErrYAML)
    ELSE LET t == TemplateDir[e.template].t
             p == ProcessUserPromptTemplate(t, prompt)
         IN  IF p.err # NoErr THEN Built(NoRequest, p.err)
             ELSE Built(Request(ResolveModel(IF t.model # "" THEN t.model ELSE e.model),
                                CompletionMessages(TRUE, t, p.text),
                                t.temperature, FALSE), NoErr)

\* root.go:74-169: from the prompt to completionBody, or the error RunE ends with
BuildCompletionBody(e, prompt) ==
    IF e.apiKey = "" THEN Built(NoRequest, ErrNoAPIKey)
    ELSE IF e.template = ""
    THEN Built(Request(ResolveModel(e.model),
                       CompletionMessages(FALSE, NoTemplate, prompt), <<>>, FALSE), NoErr)
    ELSE IF e.template \notin DOMAIN TemplateDir THEN Built(NoRequest, ErrNotExist)
    ELSE IF ~TemplateDir[e.template].yaml THEN Built(NoRequest, ErrYAML)
    ELSE LET t == TemplateDir[e.template].t
             p == ProcessUserPromptTemplate(t, prompt)
         IN  IF p.err # NoErr THEN Built(NoRequest, p.err)
             ELSE Built(Request(IF t.model # "" THEN t.model ELSE ResolveModel(e.model),
                                CompletionMessages(TRUE, t, p.text),
                                t.temperature, FALSE), NoErr)

---------------------------------------------------------------------------
(* State machine *)

NoResp == [code |-> 0, body |-> <<>>]

NoCmd == [state |-> "running", err |-> NoErr, clipboard |-> <<>>, exit |-> 0]

\* RunE is entered (root.go:52) in mode m with the inputs e
Begin(m, e) ==
    /\ env = e
    /\ finalPrompt = <<>>
    /\ completionBody = NoRequest
    /\ mode = m
    /\ pc = "init"
    /\ ctxDone = FALSE
    /\ signalChannel = 0
    /\ watcher = "waiting"
    /\ requests = 0
    /\ resp = NoResp
    /\ doErr = NoErr
    /\ closed = 0
    /\ pos = 0
    /\ readErr = NoErr
    /\ tokens = <<>>
    /\ fullContent = <<>>
    /\ sink = <<>>
    /\ ret = Result(<<>>, <<>>, NoErr)
    /\ path = "none"
    /\ cmd = NoCmd

\* Nothing of an earlier invocation exists when the process makes its first call
NoStale == [blocked |-> 0, woken |-> 0]

FirstCall == invocations = 1 /\ stale = NoStale

Init == FirstCall /\ \E m \in {"stream", "block"} : Begin(m, PlainInvocation)

\* main.go:11-13
ExitCode(err) == IF err # NoErr THEN 1 ELSE 0

\* RunE returns err before the client is called: the deferred cancel runs
\* (root.go:57) and main exits (a Fatal log entry exits at once, with status 1 too)
ReturnEarly(err) ==
    /\ pc' = "exited"
    /\ ctxDone' = TRUE
    /\ cmd' = [state |-> "exited", err |-> err, clipboard |-> <<>>,
               exit |-> ExitCode(err)]
    /\ UNCHANGED <<env, mode, signalChannel, watcher, requests, resp, doErr, closed,
                   pos, readErr, tokens, fullContent, sink, ret, path>>

\* root.go:68-72
GetPrompt ==
    /\ UNCHANGED processVars
    /\ pc = "init"
    /\ LET p == getPromptContent(env.args, env.promptFile, env.stdin)
       IN  IF p.err # NoErr
           THEN ReturnEarly(p.err) /\ UNCHANGED <<finalPrompt, completionBody>>
           ELSE /\ finalPrompt' = p.text
                /\ pc' = "prompted"
                /\ UNCHANGED <<env, completionBody, mode, ctxDone, signalChannel, watcher,
                               requests, resp, doErr, closed, pos, readErr, tokens,
                               fullContent, sink, ret, path, cmd>>

\* root.go:74-169
BuildRequest ==
    /\ UNCHANGED processVars
    /\ pc = "prompted"
    /\ LET b == BuildCompletionBody(env, finalPrompt)
       IN  IF b.err # NoErr
           THEN ReturnEarly(b.err) /\ UNCHANGED <<finalPrompt, completionBody>>
           ELSE /\ completionBody' = b.body
                /\ pc' = "start"
                /\ UNCHANGED <<env, finalPrompt, mode, ctxDone, signalChannel, watcher,
                               requests, resp, doErr, closed, pos, readErr, tokens,
                               fullContent, sink, ret, path, cmd>>

\* No invocation calls signal.Stop, so the channels of the invocations that have
\* returned stay registered (root.go:59-60) and an interrupt fills them as well:
\* every watcher still blocked on one of them becomes runnable
WakeStale(st) == [blocked |-> 0, woken |-> st.woken + st.blocked]

\* os/signal delivers an interrupt to signalChannel without blocking: the signal is
\* dropped when the buffer of one is full (root.go:59-60)
Interrupt ==
    /\ UNCHANGED rootVars
    /\ cmd.state = "running"
    /\ signalChannel' = IF signalChannel < SignalBuffer THEN signalChannel + 1
                        ELSE signalChannel
    /\ stale' = WakeStale(stale)
    /\ UNCHANGED invocations
    /\ UNCHANGED <<doErr, mode, pc, ctxDone, watcher, requests, resp, closed, pos, readErr,
                   tokens, fullContent, sink, ret, path, cmd>>

\* root.go:62-66: the watcher goroutine receives a signal and cancels ctx
WatcherCancel ==
    /\ UNCHANGED processVars
    /\ UNCHANGED rootVars
    /\ cmd.state = "running"
    /\ watcher = "waiting"
    /\ signalChannel > 0
    /\ signalChannel' = signalChannel - 1
    /\ watcher' = "done"
    /\ ctxDone' = TRUE
    /\ UNCHANGED <<doErr, mode, pc, requests, resp, closed, pos, readErr,
                   tokens, fullContent, sink, ret, path, cmd>>

SendRequestAfterCancel ==
    /\ UNCHANGED processVars
    /\ pc = "start"
    /\ pc' = "requesting"
    /\ ctxDone' = TRUE
    /\ completionBody' = [completionBody EXCEPT !.stream = (mode = "stream")]
    /\ requests' = requests + 1
    /\ UNCHANGED <<env, finalPrompt, doErr, mode, signalChannel, watcher, resp, closed,
                   pos, readErr, tokens, fullContent, sink, ret, path, cmd>>

\* root.go:171-172 and 202-203, client.go:116 and 168: the client is called with
\* completionBody, Stream set in the streaming branch, and calls HTTPClient.Do
SendRequest ==
    /\ UNCHANGED processVars
    /\ pc = "start"
    /\ pc' = "requesting"
    /\ completionBody' = [completionBody EXCEPT !.stream = (mode = "stream")]
    /\ requests' = requests + 1
    /\ UNCHANGED <<env, finalPrompt, doErr, mode, ctxDone, signalChannel, watcher, resp, closed, pos,
                   readErr, tokens, fullContent, sink, ret, path, cmd>>

\* client.go:117-124 and 169-176: Do returns an error, no defer is registered
DoFails ==
    /\ UNCHANGED processVars
    /\ UNCHANGED rootVars
    /\ pc = "requesting"
    /\ \E e \in DoErrors :
          /\ doErr' = e
          /\ ret' = DoErrorResult(e)
          /\ path' = IF ErrorsIs(e, Canceled) THEN "send_canceled" ELSE "send_failed"
    /\ pc' = "returned"
    /\ UNCHANGED <<mode, ctxDone, signalChannel, watcher, requests, resp,
                   closed, pos, readErr, tokens, fullContent, sink, cmd>>

\* client.go:116-131 and 168-183: Do returns a response, its Close is deferred and
\* the status is checked.  The request carries ctx (client.go:107, 159): no
\* response is returned for a context already cancelled; a cancellation that
\* races with the response is the interleaving in which the response comes first.
DoResponds ==
    /\ UNCHANGED processVars
    /\ UNCHANGED rootVars
    /\ pc = "requesting"
    /\ ~ctxDone
    /\ \E code \in StatusCodes, body \in BodiesFor(mode) :
          /\ resp' = [code |-> code, body |-> body]
          /\ pc' = IF StatusRejected(code) THEN "readall"
                   ELSE IF mode = "stream" THEN "scanning" ELSE "decoding"
    /\ UNCHANGED <<doErr, mode, ctxDone, signalChannel, watcher, requests, closed,
                   pos, readErr, tokens, fullContent, sink, ret, path, cmd>>

\* client.go:132-137 and 184-189: io.ReadAll reads the body, its error is dropped
\* (e # NoErr: the read failed after k lines), and the status error is returned
ReadErrorBody ==
    /\ UNCHANGED processVars
    /\ UNCHANGED rootVars
    /\ pc = "readall"
    /\ \E k \in 0..Len(resp.body), e \in {NoErr} \cup ReadErrors :
          /\ e = NoErr => k = Len(resp.body)
          /\ readErr' = e
          /\ ret' = StatusErrorResult(resp.code, SubSeq(resp.body, 1, k))
    /\ path' = "status"
    /\ pc' = "returned"
    /\ closed' = BodyClose(closed)
    /\ UNCHANGED <<doErr, mode, ctxDone, signalChannel, watcher, requests, resp,
                   pos, tokens, fullContent, sink, cmd>>

\* the function returns after the loop (client.go:227-237), the body is closed
LeaveLoop(e) ==
    /\ ret' = AfterLoopResult(fullContent, e)
    /\ path' = AfterLoopPath(e)
    /\ pc' = "returned"
    /\ closed' = BodyClose(closed)
    /\ UNCHANGED <<fullContent, sink>>

\* client.go:195-224: one iteration of the loop on the token Scan delivered,
\* e the scanner's error at that time
LoopBody(tok, e) ==
    /\ tokens' = Append(tokens, tok)
    /\ IF ~HasPrefix(tok, DataPrefix)
       THEN UNCHANGED <<pc, ret, path, closed, fullContent, sink>>
       ELSE LET data == TrimPrefix(tok, DataPrefix)
            IN  IF data.kind = DoneSentinel
                THEN LeaveLoop(e)
                ELSE LET u == UnmarshalStream(data)
                     IN  IF ~u.ok
                         THEN /\ ret' = UnmarshalErrorResult(fullContent, ErrSyntax)
                              /\ path' = "unmarshal"
                              /\ pc' = "returned"
                              /\ closed' = BodyClose(closed)
                              /\ UNCHANGED <<fullContent, sink>>
                         ELSE LET w == WriteChoices(u.choices, sink, fullContent)
                              IN  /\ sink' = w.sink
                                  /\ fullContent' = w.full
                                  /\ UNCHANGED <<pc, ret, path, closed>>

\* client.go:194: Scan finds the next line of the body; a line longer than the
\* scanner's buffer ends the scan with ErrTooLong
ScanLine ==
    /\ UNCHANGED processVars
    /\ UNCHANGED rootVars
    /\ pc = "scanning"
    /\ readErr = NoErr
    /\ pos < Len(resp.body)
    /\ IF resp.body[pos + 1].big
       THEN /\ readErr' = ErrTooLong
            /\ LeaveLoop(ErrTooLong)
            /\ UNCHANGED <<pos, tokens>>
       ELSE /\ readErr' = NoErr
            /\ pos' = pos + 1
            /\ LoopBody(resp.body[pos + 1], NoErr)
    /\ UNCHANGED <<doErr, mode, ctxDone, signalChannel, watcher, requests, resp, cmd>>

\* client.go:194: Scan reaches the end of the body
ScanEOF ==
    /\ UNCHANGED processVars
    /\ UNCHANGED rootVars
    /\ pc = "scanning"
    /\ readErr = NoErr
    /\ pos = Len(resp.body)
    /\ readErr' = ErrEOF
    /\ LeaveLoop(ErrEOF)
    /\ UNCHANGED <<doErr, mode, ctxDone, signalChannel, watcher, requests, resp,
                   pos, tokens, cmd>>

\* client.go:194: the Read under Scan fails; what had arrived of the next line is
\* delivered as a token, otherwise Scan returns false
ScanReadError ==
    /\ UNCHANGED processVars
    /\ UNCHANGED rootVars
    /\ pc = "scanning"
    /\ readErr = NoErr
    /\ \E e \in ReadErrors, frag \in Frags(resp.body, pos) :
          /\ readErr' = e
          /\ IF frag = "none"
             THEN LeaveLoop(e) /\ UNCHANGED tokens
             ELSE LoopBody(Cut(resp.body[pos + 1], frag), e)
    /\ UNCHANGED <<doErr, mode, ctxDone, signalChannel, watcher, requests, resp,
                   pos, cmd>>

\* client.go:194: Scan after the token that followed a read error returns false
ScanAfterError ==
    /\ UNCHANGED processVars
    /\ UNCHANGED rootVars
    /\ pc = "scanning"
    /\ readErr # NoErr
    /\ LeaveLoop(readErr)
    /\ UNCHANGED <<doErr, mode, ctxDone, signalChannel, watcher, requests, resp,
                   pos, readErr, tokens, cmd>>

\* client.go:140-147: the body is decoded as one JSON value
Decode ==
    /\ UNCHANGED processVars
    /\ UNCHANGED rootVars
    /\ pc = "decoding"
    /\ LET d == DecodeResponse(resp.body)
       IN  /\ ret' = DecodeResult(d, IF d.ok THEN NoErr
                                     ELSE IF resp.body = <<>> THEN ErrEOF ELSE ErrSyntax)
           /\ path' = IF d.ok THEN "decoded" ELSE "decode_failed"
    /\ pc' = "returned"
    /\ closed' = BodyClose(closed)
    /\ UNCHANGED <<doErr, mode, ctxDone, signalChannel, watcher, requests, resp,
                   pos, readErr, tokens, fullContent, sink, cmd>>

\* client.go:141-144: a Read under Decode fails
DecodeReadError ==
    /\ UNCHANGED processVars
    /\ UNCHANGED rootVars
    /\ pc = "decoding"
    /\ \E e \in ReadErrors :
          /\ readErr' = e
          /\ ret' = DecodeResult(DecodeResponse(<<>>), e)
    /\ path' = "decode_failed"
    /\ pc' = "returned"
    /\ closed' = BodyClose(closed)
    /\ UNCHANGED <<doErr, mode, ctxDone, signalChannel, watcher, requests, resp,
                   pos, tokens, fullContent, sink, cmd>>

\* glamour.Render(content, "auto") followed by fmt.Println (root.go:183-187)
Render(content) == <<"<md>">> \o content \o <<"</md>", "\n">>

ErrNoChoices == Err(<<"no completion choices received">>, <<>>, <<>>)

RunETailAcceptingNoChoices(m, r, copy, renderOK) ==
    IF r.err # NoErr
    THEN [err |-> r.err, printed |-> <<>>, clipboard |-> <<>>]
    ELSE IF m = "block"
         THEN LET choices == r.completion[1]
                  content == IF Len(choices) > 0 THEN choices[1].content ELSE <<>>
              IN  [err |-> NoErr,
                   printed |-> IF renderOK THEN Render(content) ELSE <<>>,
                   clipboard |-> IF copy THEN <<content>> ELSE <<>>]
         ELSE [err |-> NoErr, printed |-> <<>>,
               clipboard |-> IF copy THEN <<r.text>> ELSE <<>>]

RunETailLastChoice(m, r, copy, renderOK) ==
    IF r.err # NoErr
    THEN [err |-> r.err, printed |-> <<>>, clipboard |-> <<>>]
    ELSE IF m = "block"
         THEN LET choices == r.completion[1]
                  n       == Len(choices)
              IN  IF n > 0
                  THEN [err |-> NoErr,
                        printed |-> IF renderOK THEN Render(choices[n].content) ELSE <<>>,
                        clipboard |-> IF copy THEN <<choices[n].content>> ELSE <<>>]
                  ELSE [err |-> ErrNoChoices, printed |-> <<>>, clipboard |-> <<>>]
         ELSE [err |-> NoErr, printed |-> <<>>,
               clipboard |-> IF copy THEN <<r.text>> ELSE <<>>]

\* root.go:171-218: what RunE does with the result r of the client call; copy is
\* always_copy, renderOK whether glamour rendered the content
RunETail(m, r, copy, renderOK) ==
    IF r.err # NoErr
    THEN [err |-> r.err, printed |-> <<>>, clipboard |-> <<>>]
    ELSE IF m = "block"
         THEN LET choices == r.completion[1]
              IN  IF Len(choices) > 0
                  THEN [err |-> NoErr,
                        printed |-> IF renderOK THEN Render(choices[1].content) ELSE <<>>,
                        clipboard |-> IF copy THEN <<choices[1].content>> ELSE <<>>]
                  ELSE [err |-> ErrNoChoices, printed |-> <<>>, clipboard |-> <<>>]
         ELSE [err |-> NoErr, printed |-> <<>>,
               clipboard |-> IF copy THEN <<r.text>> ELSE <<>>]

RunEFinishRetrying ==
    /\ UNCHANGED processVars
    /\ pc = "returned"
    /\ IF ret.err # NoErr
       THEN /\ pc' = "start"
            /\ UNCHANGED <<ctxDone, cmd, sink>>
       ELSE /\ pc' = "exited"
            /\ ctxDone' = TRUE
            /\ \E copy \in BOOLEAN, renderOK \in BOOLEAN :
                  LET t == RunETail(mode, ret, copy, renderOK)
                  IN  /\ cmd' = [state |-> "exited", err |-> t.err,
                                 clipboard |-> t.clipboard, exit |-> ExitCode(t.err)]
                      /\ sink' = sink \o t.printed
    /\ UNCHANGED <<rootVars, doErr, mode, signalChannel, watcher, requests, resp, closed,
                   pos, readErr, tokens, fullContent, ret, path>>

\* root.go:171-218 and 57: RunE handles the result and returns; the deferred
\* cancel runs; main exits
RunEFinish ==
    /\ UNCHANGED processVars
    /\ UNCHANGED rootVars
    /\ pc = "returned"
    /\ pc' = "exited"
    /\ ctxDone' = TRUE
    /\ \E copy \in BOOLEAN, renderOK \in BOOLEAN :
          LET t == RunETail(mode, ret, copy, renderOK)
          IN  /\ cmd' = [state |-> "exited", err |-> t.err, clipboard |-> t.clipboard,
                         exit |-> ExitCode(t.err)]
              /\ sink' = sink \o t.printed
    /\ UNCHANGED <<doErr, mode, signalChannel, watcher, requests, resp, closed,
                   pos, readErr, tokens, fullContent, ret, path>>

Next ==
    \/ GetPrompt
    \/ BuildRequest
    \/ Interrupt
    \/ WatcherCancel
    \/ SendRequest
    \/ DoFails
    \/ DoResponds
    \/ ReadErrorBody
    \/ ScanLine
    \/ ScanEOF
    \/ ScanReadError
    \/ ScanAfterError
    \/ Decode
    \/ DecodeReadError
    \/ RunEFinish

Spec == Init /\ [][Next]_vars

\* The root command in blocking mode (--stream-mode=false or always_format), over
\* every invocation: the steps of Next that a blocking run can take
BlockInit == FirstCall /\ \E e \in Invocations : Begin("block", e)

BlockNext ==
    \/ GetPrompt
    \/ BuildRequest
    \/ Interrupt
    \/ WatcherCancel
    \/ SendRequest
    \/ DoFails
    \/ DoResponds
    \/ ReadErrorBody
    \/ Decode
    \/ DecodeReadError
    \/ RunEFinish

BlockSpec == BlockInit /\ [][BlockNext]_vars

---------------------------------------------------------------------------
(* Several invocations in one process, as the tests of the package make them
   (executeCommand calls rootCmd.Execute once per test) *)

MaxRuns == 3

\* What becomes of the watcher when its invocation returns: RunE has no statement
\* that ends the goroutine of root.go:62-66, so a watcher that has not received
\* stays behind, blocked on its channel or runnable when a signal is buffered
LeaveWatcher(st, w, ch) ==
    IF w = "done" THEN st
    ELSE IF ch = 0 THEN [st EXCEPT !.blocked = @ + 1]
    ELSE [st EXCEPT !.woken = @ + 1]

\* rootCmd.Execute is called again: RunE makes a new ctx, a new signalChannel and
\* a new watcher (root.go:55-66); a Fatal log entry has ended the process
RunAgain ==
    /\ pc = "exited"
    /\ cmd.err # ErrNoAPIKey
    /\ invocations < MaxRuns
    /\ invocations' = invocations + 1
    /\ stale' = LeaveWatcher(stale, watcher, signalChannel)
    /\ finalPrompt' = <<>>
    /\ completionBody' = NoRequest
    /\ pc' = "init"
    /\ ctxDone' = FALSE
    /\ signalChannel' = 0
    /\ watcher' = "waiting"
    /\ requests' = 0
    /\ resp' = NoResp
    /\ doErr' = NoErr
    /\ closed' = 0
    /\ pos' = 0
    /\ readErr' = NoErr
    /\ tokens' = <<>>
    /\ fullContent' = <<>>
    /\ sink' = <<>>
    /\ ret' = Result(<<>>, <<>>, NoErr)
    /\ path' = "none"
    /\ cmd' = NoCmd
    /\ UNCHANGED <<env, mode>>

\* root.go:63-65 in the watcher of an invocation that has returned: it receives
\* the signal and calls the cancel of its own closure, whose ctx the deferred
\* cancel of root.go:57 has already cancelled; the running invocation's ctx is
\* another object
StaleWatcherCancel ==
    /\ stale.woken > 0
    /\ stale' = [stale EXCEPT !.woken = @ - 1]
    /\ UNCHANGED <<rootVars, invocations, mode, pc, ctxDone, signalChannel, watcher,
                   requests, resp, doErr, closed, pos, readErr, tokens, fullContent,
                   sink, ret, path, cmd>>

ProcessInit == FirstCall /\ Begin("block", PlainInvocation)

ProcessNext ==
    \/ BlockNext
    \/ RunAgain
    \/ StaleWatcherCancel

ProcessSpec == ProcessInit /\ [][ProcessNext]_vars

---------------------------------------------------------------------------
(* What the wire says, read off the lines themselves *)

IsData(l) == l.marker = DataPrefix

IsChunk(l) == IsData(l) /\ l.kind = "json"

IsDone(l) == IsData(l) /\ l.kind = DoneSentinel

IsMalformed(l) == IsData(l) /\ l.kind \notin {"json", DoneSentinel}

\* a chunk whose choices all carry content and no finish_reason
ContentOnly(l) ==
    /\ IsChunk(l)
    /\ Len(l.choices) > 0
    /\ \A i \in 1..Len(l.choices) : l.choices[i].delta # <<>> /\ l.choices[i].finish = ""

HasFinish(l) == IsChunk(l) /\ \E i \in 1..Len(l.choices) : l.choices[i].finish # ""

RECURSIVE ChoiceText(_)
ChoiceText(cs) == IF cs = <<>> THEN <<>> ELSE Head(cs).delta \o ChoiceText(Tail(cs))

RECURSIVE ChoiceBytes(_)
ChoiceBytes(cs) ==
    IF cs = <<>> THEN <<>>
    ELSE Head(cs).delta \o (IF Head(cs).finish # "" THEN <<"\n", "\n">> ELSE <<>>)
         \o ChoiceBytes(Tail(cs))

RECURSIVE ExpectedText(_)
\* the delta contents of the chunks among the lines ls, in order
ExpectedText(ls) ==
    IF ls = <<>> THEN <<>>
    ELSE (IF IsChunk(Head(ls)) THEN ChoiceText(Head(ls).choices) ELSE <<>>)
         \o ExpectedText(Tail(ls))

RECURSIVE ExpectedSink(_)
\* the same with two newlines after each choice that has a finish_reason
ExpectedSink(ls) ==
    IF ls = <<>> THEN <<>>
    ELSE (IF IsChunk(Head(ls)) THEN ChoiceBytes(Head(ls).choices) ELSE <<>>)
         \o ExpectedSink(Tail(ls))

Front(q) == SubSeq(q, 1, Len(q) - 1)

Last(q) == q[Len(q)]

IsPrefixOf(a, b) == Len(a) <= Len(b) /\ a = SubSeq(b, 1, Len(a))

RECURSIVE Atoi(_)
Atoi(ds) ==
    IF ds = <<>> THEN 0
    ELSE LET v == CASE Last(ds) = "0" -> 0 [] Last(ds) = "1" -> 1 [] Last(ds) = "2" -> 2
                    [] Last(ds) = "3" -> 3 [] Last(ds) = "4" -> 4 [] Last(ds) = "5" -> 5
                    [] Last(ds) = "6" -> 6 [] Last(ds) = "7" -> 7 [] Last(ds) = "8" -> 8
                    [] Last(ds) = "9" -> 9
         IN  10 * Atoi(Front(ds)) + v

Returned == pc \in {"returned", "exited"}

StreamOK == mode = "stream" /\ resp.code = StatusOK

---------------------------------------------------------------------------
(* Claims *)

\* C1: when the body of a 200 response delivers chunks that each carry only
\* non-empty delta.content and then the [DONE] line, with no read failure, the
\* streaming call returns a nil error, a text equal to the contents concatenated
\* in arrival order, and the sink holds exactly those bytes in that order.
C1_ConcatenationOnDone ==
    ( /\ pc = "returned"
      /\ StreamOK
      /\ readErr = NoErr
      /\ tokens # <<>>
      /\ IsDone(Last(tokens))
      /\ \A i \in 1..(Len(tokens) - 1) : ContentOnly(tokens[i]) \/ ~IsData(tokens[i]) )
    => /\ ret.err = NoErr
       /\ ret.text = ExpectedText(Front(tokens))
       /\ sink = ExpectedText(Front(tokens))

C1_Witness ==
    /\ pc = "returned"
    /\ StreamOK
    /\ tokens = <<L_a, L_b, L_done>>
    /\ ret.err = NoErr
    /\ ret.text = <<"a", "b">>
    /\ sink = <<"a", "b">>

\* C2: when a data line whose payload is not valid JSON arrives after k valid
\* chunks, the streaming call returns a non-nil error together with the text of
\* those k chunks (what was already written), not an empty text.
C2_PartialTextOnParseError ==
    ( /\ pc = "returned"
      /\ StreamOK
      /\ readErr = NoErr
      /\ tokens # <<>>
      /\ IsMalformed(Last(tokens)) )
    => /\ ret.err # NoErr
       /\ ret.text = ExpectedText(Front(tokens))

\* C3: when the body of a 200 response ends without a [DONE] line and without a
\* read error, the streaming call returns a nil error and the text of all the
\* chunks of the body.
C3_EndOfStreamIsSuccess ==
    ( /\ pc = "returned"
      /\ StreamOK
      /\ readErr = ErrEOF
      /\ \A i \in 1..Len(resp.body) : ~IsDone(resp.body[i]) )
    => /\ ret.err = NoErr
       /\ tokens = resp.body
       /\ ret.text = ExpectedText(resp.body)

C3_Witness ==
    /\ pc = "returned"
    /\ StreamOK
    /\ readErr = ErrEOF
    /\ resp.body = <<L_a, L_two>>
    /\ ret.err = NoErr
    /\ ret.text = <<"a", "c", "d">>

NonSuccess(code) == ~(200 <= code /\ code <= 299)

StatusErrorShape ==
    /\ ret.err.chain = <<"LLM API returned non-OK status">>
    /\ Atoi(ret.err.code) = resp.code
    /\ tokens = <<>>
    /\ pos = 0
    /\ sink = <<>>
    /\ ret.text = <<>>
    /\ ret.completion = <<>>

C5_CancelledReadReturnsPartial ==
    (pc = "returned" /\ StreamOK /\ readErr = ErrCanceled)
    => /\ ret.err = ErrCanceled
       /\ ret.text = ExpectedText(tokens)
       /\ Len(tokens) <= pos + 1
       /\ IsPrefixOf(SubSeq(tokens, 1, pos), resp.body)

\* C6: once a call has returned, the body was closed exactly once if Do returned
\* a response and never if Do failed; before the return it is not closed.
C6_BodyClosedExactlyOnce ==
    /\ Returned => closed = (IF resp # NoResp THEN 1 ELSE 0)
    /\ ~Returned => closed = 0

C6_Witness ==
    /\ pc = "returned"
    /\ path = "read_canceled"
    /\ resp # NoResp
    /\ closed = 1

EmptyChoicesResponse ==
    /\ mode = "block"
    /\ resp.code = StatusOK
    /\ resp.body = <<J_none>>
    /\ readErr = NoErr

\* C7 as claimed: GetChatCompletion, given a 200 response whose JSON has an empty
\* choices array, returns the empty-choices error.
C7_ClientReturnsNoChoicesError ==
    (pc = "returned" /\ EmptyChoicesResponse) => ret.err = ErrNoChoices

\* C7 as amended: GetChatCompletion returns that response with a nil error; the
\* root command then returns the empty-choices error, prints nothing, copies
\* nothing and the process exits with status 1.
C7_RootCommandReportsNoChoices ==
    /\ (pc = "returned" /\ EmptyChoicesResponse)
       => ret.err = NoErr /\ ret.completion = << <<>> >>
    /\ (pc = "exited" /\ EmptyChoicesResponse)
       => /\ cmd.err = ErrNoChoices
          /\ cmd.exit = 1
          /\ cmd.clipboard = <<>>
          /\ sink = <<>>

C7_Witness ==
    /\ pc = "exited"
    /\ EmptyChoicesResponse
    /\ ret.err = NoErr
    /\ cmd.err = ErrNoChoices

\* C8: a step of the loop on a parsed chunk writes, for each choice in order, its
\* content and then two newlines if it has a finish_reason; it appends only the
\* contents to the accumulated text; and it leaves the loop running, so chunks
\* after a finish_reason chunk are written and accumulated like any other.
C8_FinishReasonKeepsLooping ==
    [][ (Len(tokens') = Len(tokens) + 1 /\ IsChunk(Last(tokens')))
        => /\ sink' = sink \o ChoiceBytes(Last(tokens').choices)
           /\ fullContent' = fullContent \o ChoiceText(Last(tokens').choices)
           /\ pc' = "scanning" ]_vars

C8_Witness ==
    /\ pc = "returned"
    /\ tokens = <<L_stop, L_a, L_done>>
    /\ ret.err = NoErr
    /\ ret.text = <<"a">>
    /\ sink = <<"\n", "\n", "a">>

\* the innermost error of a chain
RootCause(e) == e.chain[Len(e.chain)]

\* C9: when Do fails, nothing is written and the text is empty / the response
\* nil; the error is exactly the cancellation error when the failure was caused
\* by the cancellation, and otherwise a wrapped error around the transport's that
\* is not of the cancellation kind.
C9_SendFailure ==
    (pc = "returned" /\ doErr # NoErr)
    => /\ sink = <<>>
       /\ ret.text = <<>>
       /\ ret.completion = <<>>
       /\ resp = NoResp
       /\ IF RootCause(doErr) = Canceled
          THEN ret.err = ErrCanceled
          ELSE /\ ret.err.chain = <<"error sending request to LLM API">> \o doErr.chain
               /\ ~ErrorsIs(ret.err, Canceled)

C9_Witness ==
    /\ pc = "returned"
    /\ doErr = ErrDoCanceled
    /\ ret.err = ErrCanceled
    /\ sink = <<>>

\* C10: when ctx is cancelled while the streaming call waits for the next line,
\* so that the Read of the body fails with the cancellation error, the call
\* returns an error of the cancellation kind and the body is closed.
C10_CancelWhileBlockedReturnsCancellation ==
    (Returned /\ StreamOK /\ readErr = ErrCanceled)
    => ErrorsIs(ret.err, Canceled) /\ closed = 1

\* the steps of the loop of client.go:194
Scanning == ScanLine \/ ScanEOF \/ ScanReadError \/ ScanAfterError

\* a transport that honours ctx fails the pending Read once ctx is cancelled, and
\* a Read that can return does: the loop is never stuck while a step is possible
FairSpec == Spec /\ WF_vars(Scanning)

\* the part of C10 that holds: a streaming call that is scanning returns
C10_ScanningLeadsToReturn == (pc = "scanning") ~> Returned

---------------------------------------------------------------------------
(* Claims about the root command *)

\* C11: an invocation calls HTTPClient.Do at most once; when the client call
\* returns an error (status, transport, decode, read or cancellation), RunE
\* returns that same error and exactly one request has been made.
C11_AtMostOneRequest ==
    /\ requests <= 1
    /\ (pc = "exited" /\ ret.err # NoErr) => (cmd.err = ret.err /\ requests = 1)

C11_Witness ==
    /\ pc = "exited"
    /\ path = "status"
    /\ ret.err # NoErr
    /\ cmd.err = ret.err
    /\ requests = 1

\* the template an invocation selects has a system message
SelectsSystem(e) ==
    /\ e.template \in DOMAIN TemplateDir
    /\ TemplateDir[e.template].t.system # <<>>

\* C12: the request RunE builds has the messages [system?, user]: exactly one
\* user message, which is the last; a system message precedes it exactly when a
\* template is selected whose system message is non-empty; no system message is
\* empty; and a request is sent only after it was built.
C12_MessagesShape ==
    /\ requests > 0 => completionBody # NoRequest
    /\ completionBody # NoRequest =>
          LET ms == completionBody.messages
          IN  /\ Len(ms) = (IF SelectsSystem(env) THEN 2 ELSE 1)
              /\ ms[Len(ms)].role = "user"
              /\ Cardinality({i \in 1..Len(ms) : ms[i].role = "user"}) = 1
              /\ SelectsSystem(env) =>
                    ms[1] = Message("system", TemplateDir[env.template].t.system)
              /\ \A i \in 1..Len(ms) : ms[i].role = "system" => ms[i].content # <<>>

C12_Witness ==
    /\ pc = "requesting"
    /\ env.template = "brainstorm"
    /\ completionBody.messages = <<Message("system", <<"S">>), Message("user", <<"f">>)>>

\* the three inputs of an invocation, trimmed
FileText(e) == IF e.promptFile.flag THEN TrimSpace(e.promptFile.bytes) ELSE <<>>

PipedText(e) == IF e.stdin.piped THEN TrimSpace(e.stdin.bytes) ELSE <<>>

CLIText(e) == TrimSpace(Join(e.args, <<" ">>))

AllEmpty(e) == FileText(e) = <<>> /\ PipedText(e) = <<>> /\ CLIText(e) = <<>>

\* C14: when the prompt file's text, the piped text and the CLI text are all
\* empty after trimming, RunE ends with an error at the prompt, with exit status
\* 1 and without any request; a prompt that getPromptContent returned without
\* error is never empty, so no request is sent for an empty prompt.
C14_EmptyPromptIsAnError ==
    /\ (AllEmpty(env) /\ pc # "init")
       => (pc = "exited" /\ cmd.err # NoErr /\ cmd.exit = 1 /\ requests = 0)
    /\ pc = "prompted" => finalPrompt # <<>>
    /\ requests > 0 => finalPrompt # <<>>

C14_Witness ==
    /\ pc = "exited"
    /\ env.args = <<>>
    /\ env.stdin = Stdin(TRUE, TRUE, <<"\n">>)
    /\ env.promptFile = PromptFile(TRUE, TRUE, <<" ">>)
    /\ cmd.err = ErrNoPrompt
    /\ requests = 0

\* C15: when the client call ends with a cancellation error the process does not
\* end with an error exit status, and with every other error of the client call
\* it does.
C15_CancellationIsNoErrorExit ==
    (pc = "exited" /\ ret.err # NoErr)
    => (cmd.exit = 0 <=> ErrorsIs(ret.err, Canceled))

\* the errors with which the client side itself ends a request or a body read
ClientAborts == {ErrDoCanceled, ErrCanceled, ErrDoTimeout, ErrReadTimeout}

RECURSIVE Substitute(_, _)
\* the template text tmpl with prompt put in the place of each {{.UserPrompt}}
Substitute(tmpl, prompt) ==
    IF tmpl = <<>> THEN <<>>
    ELSE (IF Head(tmpl) = "{{.UserPrompt}}" THEN prompt ELSE <<Head(tmpl)>>)
         \o Substitute(Tail(tmpl), prompt)

\* C17: with a template selected, the content of the user message of the request
\* is the template's user_prompt_template with the prompt substituted for
\* {{.UserPrompt}}; the prompt is data, so no prompt makes the template step fail.
C17_UserMessageFromTemplate ==
    /\ (completionBody # NoRequest /\ env.template \in DOMAIN TemplateDir)
       => Last(completionBody.messages).content =
             Substitute(TemplateDir[env.template].t.userTemplate, finalPrompt)
    /\ cmd.err \notin {ErrTemplateParse, ErrTemplateExec}

\* the body of a blocking response is one JSON object with at least one choice
HasChoices(body) ==
    /\ Len(body) > 0
    /\ body[1].marker = ""
    /\ body[1].kind = "json"
    /\ Len(body[1].choices) > 0

\* C18: in blocking mode, when a 200 response whose JSON has at least one choice
\* was read without a read error, the command ends without error and with exit
\* status 0; what it printed is the rendering of the first choice's message
\* content (nothing if the rendering failed), and what it copied, if it copied,
\* is that content. The other choices do not matter.
C18_FirstChoiceIsRendered ==
    ( /\ pc = "exited"
      /\ mode = "block"
      /\ resp.code = StatusOK
      /\ readErr = NoErr
      /\ HasChoices(resp.body) )
    => LET first == resp.body[1].choices[1].message
       IN  /\ cmd.err = NoErr
           /\ cmd.exit = 0
           /\ sink \in {Render(first), <<>>}
           /\ cmd.clipboard \in {<<first>>, <<>>}

C18_Witness ==
    /\ pc = "exited"
    /\ mode = "block"
    /\ resp = [code |-> StatusOK, body |-> <<J_two>>]
    /\ sink = Render(<<"b">>)
    /\ cmd.clipboard = << <<"b">> >>
    /\ cmd.exit = 0

\* C19: at every moment of a streaming call the tokens delivered are the lines
\* of the body in wire order (the last one possibly a line cut short by a read
\* error); the accumulated text is the concatenation, in that order and in the
\* order of the choices, of the delta contents of the tokens that parsed as
\* chunks, each once; the sink holds the same with two newlines after every
\* choice that has a finish_reason; and both only ever grow by appending.
C19_AccumulatedTextIsWireOrder ==
    /\ [](mode = "stream" =>
            /\ Len(tokens) <= pos + 1
            /\ SubSeq(tokens, 1, pos) = SubSeq(resp.body, 1, pos)
            /\ fullContent = ExpectedText(tokens)
            /\ sink = ExpectedSink(tokens))
    /\ [][IsPrefixOf(fullContent, fullContent') /\ IsPrefixOf(sink, sink')]_vars

C19_Witness ==
    /\ pc = "scanning"
    /\ tokens = <<L_two, L_nosp, L_a>>
    /\ fullContent = <<"c", "d", "a">>
    /\ sink = <<"c", "d", "\n", "\n", "a">>

\* C20: once a data line whose payload is [DONE] has been read, the streaming
\* call consumes nothing more: that line is the last token, the call returns a nil
\* error, and the text and the sink are those of the chunks before it.
C20_DoneEndsTheCallSuccessfully ==
    (pc = "returned" /\ StreamOK /\ \E i \in 1..Len(tokens) : IsDone(tokens[i]))
    => /\ IsDone(Last(tokens))
       /\ \A i \in 1..(Len(tokens) - 1) : ~IsDone(tokens[i])
       /\ ret.err = NoErr
       /\ ret.text = ExpectedText(Front(tokens))
       /\ sink = ExpectedSink(Front(tokens))

---------------------------------------------------------------------------
(* Claims about lines, failures and the status check *)

\* the lines of the body the scanner has looked at: those delivered and the next
FirstLines == SubSeq(resp.body, 1, IF pos < Len(resp.body) THEN pos + 1 ELSE pos)

\* C21 as claimed: a line without the "data: " marker never causes an error,
\* whatever its content: when no Read of the body failed, a call that returns an
\* error has looked at a data line.
C21_NonDataLinesNeverFail ==
    (pc = "returned" /\ StreamOK /\ readErr \in {NoErr, ErrEOF, ErrTooLong}
       /\ ret.err # NoErr)
    => \E i \in 1..Len(FirstLines) : IsData(FirstLines[i])

\* C21 as amended: a line without the marker that the scanner delivers leaves the
\* sink, the accumulated text and the outcome unchanged and the loop running,
\* wherever it occurs; a line longer than the scanner's buffer is not delivered,
\* marker or not, and ends the call with the scanner's error wrapped and the text
\* accumulated so far.
C21_DeliveredNonDataLineIsIgnored ==
    /\ [][ (Len(tokens') = Len(tokens) + 1 /\ ~IsData(Last(tokens')))
           => /\ sink' = sink
              /\ fullContent' = fullContent
              /\ ret' = ret
              /\ pc' = "scanning" ]_vars
    /\ []( (pc = "returned" /\ StreamOK /\ readErr = ErrTooLong)
           => /\ resp.body[pos + 1].big
              /\ ret.err = Wrap("error reading streaming response", ErrTooLong)
              /\ ret.text = ExpectedText(tokens) )

C21_Witness ==
    /\ pc = "returned"
    /\ StreamOK
    /\ resp.body = <<L_a, L_nosp, L_bigc>>
    /\ tokens = <<L_a, L_nosp>>
    /\ readErr = ErrTooLong
    /\ ret.text = <<"a">>
    /\ sink = <<"a">>

\* C22: when a Read of the streaming body fails for a reason other than
\* cancellation, or a line exceeds the scanner's buffer, the call returns that
\* error wrapped as a read error, not of the cancellation kind, with the text
\* accumulated before the failure; the oversized line is not among the tokens.
C22_ReadFailureReturnsWrappedErrorAndText ==
    (pc = "returned" /\ StreamOK /\ readErr \notin {NoErr, ErrEOF, ErrCanceled})
    => /\ ret.err = Wrap("error reading streaming response", readErr)
       /\ ~ErrorsIs(ret.err, Canceled)
       /\ ret.text = ExpectedText(tokens)
       /\ readErr = ErrTooLong => tokens = SubSeq(resp.body, 1, pos)

\* C23: when the cancellation of ctx makes a blocking operation of a call fail
\* (Do; a Read under Scan; the ReadAll of the body of a rejected response; a Read
\* under Decode), the call returns an error that errors.Is recognises as the
\* cancellation: no other error and no success.
C23_CancellationIsAlwaysRecognisable ==
    (pc = "returned" /\ (ErrorsIs(doErr, Canceled) \/ readErr = ErrCanceled))
    => ErrorsIs(ret.err, Canceled)

\* the call went on to read lines or to decode the JSON of the response
Decoded == path \in {"unmarshal", "read_canceled", "read_failed", "completed",
                     "decoded", "decode_failed"}

\* C24 as claimed: a response is turned into the status error exactly when its
\* status code is outside 200..299; every response with a 2xx status is decoded.
C24_RejectsExactlyNon2xx ==
    (pc = "returned" /\ resp # NoResp)
    => /\ path = "status" <=> NonSuccess(resp.code)
       /\ Decoded <=> ~NonSuccess(resp.code)

\* C24 as amended: a response is turned into the status error exactly when its
\* status code is not 200; only a response with status 200 is decoded, so a
\* response with another 2xx status is rejected like a 4xx one.
C24_RejectsExactlyNon200 ==
    /\ (pc = "returned" /\ resp # NoResp)
       => /\ path = "status" <=> resp.code # 200
          /\ Decoded <=> resp.code = 200
    /\ pc \in {"scanning", "decoding"} => resp.code = 200
    /\ (pc = "returned" /\ path = "status")
       => (tokens = <<>> /\ sink = <<>> /\ Atoi(ret.err.code) = resp.code)

C24_Witness ==
    /\ pc = "returned"
    /\ resp.code = 201
    /\ resp.body = <<L_a, L_done>>
    /\ path = "status"
    /\ ret.err.code = <<"2", "0", "1">>
    /\ tokens = <<>>

\* the configured model after one lookup in the aliases
Configured(e) == IF e.model \in DOMAIN Aliases THEN Aliases[e.model] ELSE e.model

\* C25: the model of the request is the selected template's model, verbatim, when
\* a template is selected and its model is non-empty, and otherwise the
\* configured model after one alias lookup; the temperature is the template's
\* when a template is selected and sets one, and otherwise none.
C25_ModelAndTemperature ==
    completionBody # NoRequest =>
       LET selected == env.template # ""
           t        == IF selected THEN TemplateDir[env.template].t ELSE NoTemplate
       IN  /\ completionBody.model =
                 (IF selected /\ t.model # "" THEN t.model ELSE Configured(env))
           /\ completionBody.temperature = (IF selected THEN t.temperature ELSE <<>>)

C25_Witness ==
    /\ pc = "requesting"
    /\ env.template = "plain"
    /\ env.model = "google/gemini-2.5-flash"
    /\ completionBody.model = "fast"
    /\ completionBody.temperature = <<"0.2">>

\* C26: the watcher started by an invocation ends once that invocation has
\* returned, with or without a signal: when an invocation has returned its watcher
\* is done, and no watcher of an earlier invocation of the process is left, blocked
\* on its signal channel or about to receive from it.
C26_NoWatcherOutlivesItsInvocation ==
    /\ pc = "exited" => watcher = "done"
    /\ stale = NoStale

====
